---- MODULE Spec2Model ----
(***************************************************************************)
(* Model of HGCalAnalysis/python/ntupleDataFormat.py: the HGCALNtuple      *)
(* store handle, the Event row cursor, the _Collection views and the       *)
(* _Object views, all reading one TTree buffer that every row load         *)
(* overwrites in place.                                                    *)
(***************************************************************************)
EXTENDS Integers, Sequences, FiniteSets, TLC

\* ------------------------------------------------------------------ bounds

\* Largest number of entries of a store (HGCALNtuple._entries).
MaxEntries == 3
\* Largest index the caller passes to _Collection.__getitem__.
MaxIndex == 1
\* Depth at which the interpreter gives up on nested generator frames.
MaxDepth == 6

\* The index that marks "no object" (_Object.isValid).
Sentinel == -1

\* ------------------------------------------------------------ the state

VARIABLES
  entries,     \* HGCALNtuple._entries, what GetEntriesFast() returned
  limit,       \* entries the tree can position on: LoadTree(j) >= 0 iff 0 <= j < limit
  corrupt,     \* entries whose read fails: GetEntry(j) <= 0
  buf,         \* the tree's branch buffers: the row every view reads
  lastLoaded,  \* entry of the last GetEntry that succeeded, -1 before the first
  ev,          \* the Event the caller holds (NoObject: none)
  view,        \* the collection or object the caller holds (NoObject: none)
  it,          \* the generator of HGCALNtuple.__iter__: [pc, j]
  yielded,     \* entries of the Events that generator has yielded so far
  res          \* the last operation and its outcome

vars == <<entries, limit, corrupt, buf, lastLoaded, ev, view, it, yielded, res>>

store == <<entries, limit, corrupt>>

\* ------------------------------------------------------- rows of the store

\* A populated, well-formed row.
Row0 ==
  [ run |-> 1, lumi |-> 1, event |-> 0,
    track_pt |-> <<10, 20, 30>>, track_eta |-> <<1, 2, 3>>,
    genpart_pt |-> <<5>>, genpart_eta |-> <<0>>,
    calopart_pt |-> <<7>>, calopart_eta |-> <<1>>,
    multiclus_pt |-> <<40, 50>>, multiclus_eta |-> <<1, 2>>,
    multiclus_cluster2d |-> << <<0, 2, 2>>, <<1>> >>,
    cluster2d_pt |-> <<4, 5, 6>>, cluster2d_eta |-> <<1, 1, 2>>,
    cluster2d_rechits |-> << <<0, 1>>, <<1, 1, 0>>, <<>> >>,
    rechit_pt |-> <<1, 2>>, rechit_eta |-> <<0, 1>>,
    ecalDrivenGsfele_pt |-> <<33>>, ecalDrivenGsfele_eta |-> <<2>>,
    ecalDrivenGsfele_pfClusterIndex |-> << <<1, 0, 1>> >>,
    pfclusterFromMultiCl_pt |-> <<8, 9>>, pfclusterFromMultiCl_eta |-> <<1, 2>>,
    pfclusterFromMultiCl_rechits |-> << <<1>>, <<0, 0>> >> ]

\* A row with no object of any kind.
Row1 ==
  [ run |-> 1, lumi |-> 2, event |-> 0,
    track_pt |-> <<>>, track_eta |-> <<>>,
    genpart_pt |-> <<>>, genpart_eta |-> <<>>,
    calopart_pt |-> <<>>, calopart_eta |-> <<>>,
    multiclus_pt |-> <<>>, multiclus_eta |-> <<>>,
    multiclus_cluster2d |-> <<>>,
    cluster2d_pt |-> <<>>, cluster2d_eta |-> <<>>,
    cluster2d_rechits |-> <<>>,
    rechit_pt |-> <<>>, rechit_eta |-> <<>>,
    ecalDrivenGsfele_pt |-> <<>>, ecalDrivenGsfele_eta |-> <<>>,
    ecalDrivenGsfele_pfClusterIndex |-> <<>>,
    pfclusterFromMultiCl_pt |-> <<>>, pfclusterFromMultiCl_eta |-> <<>>,
    pfclusterFromMultiCl_rechits |-> <<>> ]

\* A row whose track and electron columns disagree in length and whose
\* reference fields hold the sentinel.
Row2 ==
  [ run |-> 2, lumi |-> 1, event |-> 0,
    track_pt |-> <<11, 12>>, track_eta |-> <<1, 2, 3>>,
    genpart_pt |-> <<6, 7>>, genpart_eta |-> <<1, 0>>,
    calopart_pt |-> <<>>, calopart_eta |-> <<>>,
    multiclus_pt |-> <<41>>, multiclus_eta |-> <<1>>,
    multiclus_cluster2d |-> << <<-1, 0>> >>,
    cluster2d_pt |-> <<4>>, cluster2d_eta |-> <<1>>,
    cluster2d_rechits |-> << <<0>> >>,
    rechit_pt |-> <<3>>, rechit_eta |-> <<0>>,
    ecalDrivenGsfele_pt |-> <<34, 35>>, ecalDrivenGsfele_eta |-> <<2>>,
    ecalDrivenGsfele_pfClusterIndex |-> << <<-1>>, <<0, 0>> >>,
    pfclusterFromMultiCl_pt |-> <<8>>, pfclusterFromMultiCl_eta |-> <<1>>,
    pfclusterFromMultiCl_rechits |-> << <<0, -1>> >> ]

Rows == <<Row0, Row1, Row2>>

\* The branch buffers before any entry was read: every vector empty.
EmptyRow == [Row1 EXCEPT !.run = 0, !.lumi = 0]

\* The data of entry j of the store; entry j carries event number j + 1.
RowAt(j) ==
  IF j < 0 THEN EmptyRow
  ELSE [Rows[(j % Len(Rows)) + 1] EXCEPT !.event = j + 1]

\* ------------------------------------------------------ the class catalog

\* Branch prefix each _Object subclass passes to _Object.__init__.
ObjectPrefix ==
  [ Track |-> "track", GenParticle |-> "genpart", CaloParticle |-> "calopart",
    MultiCluster |-> "multiclus", LayerCluster |-> "cluster2d",
    RecHit |-> "rechit", Electron |-> "ecalDrivenGsfele",
    PFClusterFromMultiCl |-> "pfclusterFromMultiCl" ]

\* (sizeBranch, objclass) each _Collection subclass passes to
\* _Collection.__init__.
CollectionDef ==
  [ Tracks |-> [sizeBranch |-> "track_pt", objclass |-> "Track"],
    GenParticles |-> [sizeBranch |-> "genpart_pt", objclass |-> "GenParticle"],
    CaloParticles |-> [sizeBranch |-> "calopart_pt", objclass |-> "CaloParticle"],
    MultiClusters |-> [sizeBranch |-> "multiclus_pt", objclass |-> "MultiCluster"],
    LayerClusters |-> [sizeBranch |-> "cluster2d_pt", objclass |-> "LayerCluster"],
    RecHits |-> [sizeBranch |-> "rechit_pt", objclass |-> "RecHit"],
    Electrons |-> [sizeBranch |-> "ecalDrivenGsfele_pt", objclass |-> "Electron"],
    PFClustersFromMultiCl |->
      [sizeBranch |-> "pfclusterFromMultiCl_pt", objclass |-> "PFClusterFromMultiCl"] ]

\* The class each Event factory method names in its return statement.
FactoryTarget ==
  [ tracks |-> "Tracks", trackingParticles |-> "TrackingParticles",
    vertices |-> "Vertices", trackingVertices |-> "TrackingVertices",
    genParticles |-> "GenParticles", caloParticles |-> "CaloParticle",
    multiClusters |-> "MultiClusters", layerClusters |-> "LayerClusters",
    pfclustersFromMultiCl |-> "PFClustersFromMultiCl", recHits |-> "RecHits",
    electrons |-> "Electrons" ]

Factories == DOMAIN FactoryTarget

\* Names the module binds at top level (besides Event and HGCALNtuple).
ModuleNames == DOMAIN ObjectPrefix \cup DOMAIN CollectionDef

\* Names found on an _Object subclass by ordinary lookup, which therefore
\* never reach __getattr__.
ClassAttrs(cls) ==
  {"isValid", "index", "_checkIsValid"} \cup
  ( CASE cls = "MultiCluster" -> {"layerClusters"}
      [] cls = "LayerCluster" -> {"rechits"}
      [] cls = "Electron" -> {"clustersFromMultiCl"}
      [] cls = "PFClusterFromMultiCl" -> {"hits"}
      [] OTHER -> {} )

\* ------------------------------------------------------------ the objects

NoObject ==
  [ type |-> "None", cls |-> "", entry |-> 0, index |-> 0, prefix |-> "",
    sizeBranch |-> "", objclass |-> "", born |-> 0 ]

\* Event.__init__: keeps the tree and the entry number.
NewEvent(entry) ==
  [NoObject EXCEPT !.type = "Event", !.cls = "Event", !.entry = entry]

\* _Collection.__init__: keeps the tree, the size branch and the object class.
NewCollection(cls) ==
  [NoObject EXCEPT !.type = "Coll", !.cls = cls,
                   !.sizeBranch = CollectionDef[cls].sizeBranch,
                   !.objclass = CollectionDef[cls].objclass]

\* _Object.__init__: keeps the tree, the index and the prefix.
NewObject(cls, index) ==
  [NoObject EXCEPT !.type = "Obj", !.cls = cls, !.index = index,
                   !.prefix = ObjectPrefix[cls]]

\* The call  name(tree) : only the collection classes take one argument;
\* CaloParticle.__init__ takes one too, and then reads the unbound name 'index'.
CallWithTree(name) ==
  IF name \notin ModuleNames THEN [out |-> "NameError", obj |-> NoObject]
  ELSE IF name \in DOMAIN CollectionDef
    THEN [out |-> "ok", obj |-> NewCollection(name)]
  ELSE IF name = "CaloParticle" THEN [out |-> "NameError", obj |-> NoObject]
  ELSE [out |-> "TypeError", obj |-> NoObject]

\* The call  name(tree, index) : every _Object subclass but CaloParticle.
CallWithTreeIndex(name, index) ==
  IF name \notin ModuleNames THEN [out |-> "NameError", obj |-> NoObject]
  ELSE IF name \in DOMAIN ObjectPrefix /\ name # "CaloParticle"
    THEN [out |-> "ok", obj |-> NewObject(name, index)]
  ELSE [out |-> "TypeError", obj |-> NoObject]

\* ------------------------------------------------------------ _Collection

\* As Collection_size, but sized by the kind's eta branch.
Collection_sizeEta(c, tree) == Len(tree[ObjectPrefix[c.objclass] \o "_eta"])

\* _Collection.size: the length of the size branch's vector.
Collection_size(c, tree) == Len(tree[c.sizeBranch])

\* As Collection_getitem, but refusing an index outside [0, size()).
Collection_getitemChecked(c, index) ==
  IF 0 <= index /\ index < Len(buf[c.sizeBranch])
    THEN CallWithTreeIndex(c.objclass, index)
    ELSE [out |-> "IndexError", obj |-> NoObject]

\* _Collection.__getitem__: constructs the object, whatever the index.
Collection_getitem(c, index) == CallWithTreeIndex(c.objclass, index)

\* As Collection_iter, but over xrange(1, size()).
Collection_iterFromOne(c, tree) ==
  LET n == Len(tree[c.sizeBranch])
  IN [out |-> "ok",
      objs |-> [k \in 1..(n - 1) |-> CallWithTreeIndex(c.objclass, k).obj]]

\* _Collection.__iter__ run to exhaustion: one object per index of
\* xrange(size()); the first failing construction ends it.
Collection_iter(c, tree) ==
  LET n == Collection_size(c, tree)
      made == [k \in 1..n |-> CallWithTreeIndex(c.objclass, k - 1)]
  IN IF \E k \in 1..n : made[k].out # "ok"
       THEN [out |-> made[CHOOSE k \in 1..n : made[k].out # "ok"].out, objs |-> <<>>]
       ELSE [out |-> "ok", objs |-> [k \in 1..n |-> made[k].obj]]

\* ---------------------------------------------------------------- _Object

\* _Object.isValid
Object_isValid(o) == o.index # Sentinel

\* _Object.index
Object_index(o) == o.index

\* vec[i] as Python evaluates it on a vector: negative positions count from
\* the end, positions outside the vector raise IndexError.
PyIndex(vec, i) ==
  IF 0 <= i /\ i < Len(vec) THEN [out |-> "ok", val |-> vec[i + 1]]
  ELSE IF i < 0 /\ -i <= Len(vec) THEN [out |-> "ok", val |-> vec[Len(vec) + i + 1]]
  ELSE [out |-> "IndexError", val |-> <<>>]

\* _Object.__getattr__ followed by the call of the lambda it returns.
\* reads counts the branches of the tree that were read.
Object_getattr(o, attr, tree) ==
  IF ~Object_isValid(o) THEN [out |-> "Exception", val |-> <<>>, reads |-> 0]
  ELSE LET branch == o.prefix \o "_" \o attr
       IN IF branch \notin DOMAIN tree
            THEN [out |-> "AttributeError", val |-> <<>>, reads |-> 0]
            ELSE [out |-> PyIndex(tree[branch], o.index).out,
                  val |-> PyIndex(tree[branch], o.index).val, reads |-> 1]

\* The expression  o.attr() : a name the class defines is found before
\* __getattr__ is tried; for the generator method that is a generator object.
Object_access(o, attr, tree) ==
  IF attr \in ClassAttrs(o.cls)
    THEN [out |-> "generator", val |-> <<>>, reads |-> 0]
    ELSE Object_getattr(o, attr, tree)

\* An index list without its repeated entries, first occurrences kept.
RECURSIVE Dedup(_)
Dedup(L) ==
  IF L = <<>> THEN <<>>
  ELSE LET rest == Dedup(SubSeq(L, 1, Len(L) - 1))
           x == L[Len(L)]
       IN IF \E k \in 1..Len(rest) : rest[k] = x THEN rest ELSE Append(rest, x)

\* As YieldEach, but yielding each referenced object once.
YieldEachDedup(cls, got) ==
  IF got.out # "ok" THEN [out |-> got.out, objs |-> <<>>, reads |-> got.reads]
  ELSE [out |-> "ok",
        objs |-> [k \in 1..Len(Dedup(got.val)) |->
                    CallWithTreeIndex(cls, Dedup(got.val)[k]).obj],
        reads |-> got.reads]

\* for i in <index list>: yield cls(tree, i)   run to exhaustion.
YieldEach(cls, got) ==
  IF got.out # "ok" THEN [out |-> got.out, objs |-> <<>>, reads |-> got.reads]
  ELSE LET made == [k \in 1..Len(got.val) |-> CallWithTreeIndex(cls, got.val[k])]
       IN [out |-> "ok", objs |-> [k \in 1..Len(got.val) |-> made[k].obj],
           reads |-> got.reads]

\* MultiCluster.layerClusters
MultiCluster_layerClusters(o, tree) ==
  YieldEach("LayerCluster", Object_getattr(o, "cluster2d", tree))

\* Electron.clustersFromMultiCl
Electron_clustersFromMultiCl(o, tree) ==
  YieldEach("PFClusterFromMultiCl", Object_getattr(o, "pfClusterIndex", tree))

\* PFClusterFromMultiCl.hits
PFClusterFromMultiCl_hits(o, tree) ==
  YieldEach("RecHit", Object_getattr(o, "rechits", tree))

\* LayerCluster.rechits: self.rechits is the method itself, so the loop
\* iterates a new generator of the same method, frame inside frame, until
\* the interpreter refuses a deeper frame.
RECURSIVE LayerCluster_rechits(_, _, _)
LayerCluster_rechits(o, tree, depth) ==
  IF depth >= MaxDepth THEN [out |-> "RuntimeError", objs |-> <<>>, reads |-> 0]
  ELSE LET inner == LayerCluster_rechits(o, tree, depth + 1)
       IN IF inner.out # "ok" THEN inner
          ELSE [out |-> "ok",
                objs |-> [k \in 1..Len(inner.objs) |-> NewObject("RecHit", inner.objs[k])],
                reads |-> inner.reads]

\* op: the operation; self: the object it was called on; arg, attr: its
\* argument; out: "ok", what it returned, or the exception it raised; obj,
\* objs: the object or the objects it produced; num, val: the value it
\* produced, a number or a tuple.
NoRes ==
  [ op |-> "none", self |-> NoObject, arg |-> 0, attr |-> "", out |-> "",
    obj |-> NoObject, num |-> 0, val |-> <<>>, reads |-> 0, objs |-> <<>> ]

\* ---------------------------------------------------------------- the tree

\* TTree.LoadTree(j): the entry number, or a negative value when the tree
\* has no such entry.
LoadTree(j) == IF 0 <= j /\ j < limit THEN j ELSE -2

\* TTree.GetEntry(j): bytes read; 0 when there is no such entry, -1 on a
\* read error.
GetEntry(j) ==
  IF ~(0 <= j /\ j < limit) THEN 0 ELSE IF j \in corrupt THEN -1 ELSE 1

\* The branch buffers after GetEntry(j): overwritten in place by a read that
\* succeeds, left as they were by one that fails.
BufferAfter(j, tree) == IF GetEntry(j) > 0 THEN RowAt(j) ELSE tree

\* ------------------------------------------------------------ HGCALNtuple

\* HGCALNtuple.getEvent
HGCALNtuple_getEvent(index, tree) ==
  LET ientry == LoadTree(index)
  IN IF ientry < 0
       THEN [out |-> "None", obj |-> NoObject, tree |-> tree, nb |-> 0]
       ELSE \* "if nb <= 0: None" evaluates None and goes on
            [out |-> "Event", obj |-> NewEvent(ientry),
             tree |-> BufferAfter(ientry, tree), nb |-> GetEntry(ientry)]

\* As HGCALNtuple_iter, but leaving the loop at the first entry that fails
\* to read.
HGCALNtuple_iterBreak(j, tree) ==
  IF j >= entries \/ LoadTree(j) < 0 \/ GetEntry(j) <= 0
    THEN [out |-> "Stop", obj |-> NoObject, next |-> j, tree |-> tree]
    ELSE [out |-> "Event", obj |-> NewEvent(j), next |-> j + 1,
          tree |-> BufferAfter(j, tree)]

\* HGCALNtuple.__iter__ from loop position j up to its next yield or its end.
RECURSIVE HGCALNtuple_iter(_, _)
HGCALNtuple_iter(j, tree) ==
  IF j >= entries THEN [out |-> "Stop", obj |-> NoObject, next |-> j, tree |-> tree]
  ELSE IF LoadTree(j) < 0
    THEN [out |-> "Stop", obj |-> NoObject, next |-> j, tree |-> tree]
  ELSE IF GetEntry(j) <= 0 THEN HGCALNtuple_iter(j + 1, BufferAfter(j, tree))
  ELSE [out |-> "Event", obj |-> NewEvent(j), next |-> j + 1,
        tree |-> BufferAfter(j, tree)]

\* ------------------------------------------------------------------ Event

\* Event.entry
Event_entry(e) == e.entry

\* As Event_eventId, but answering from the row of the Event's own entry.
Event_eventIdSnapshot(e, tree) ==
  <<RowAt(e.entry).run, RowAt(e.entry).lumi, RowAt(e.entry).event>>

\* Event.eventId: (run, lumi, event) of the tree
Event_eventId(e, tree) == <<tree.run, tree.lumi, tree.event>>

\* Event.tracks ... Event.electrons: each returns <class>(self._tree)
Event_factory(name) == CallWithTree(FactoryTarget[name])

\* ---------------------------------------------------------------- actions

\* A new object, stamped with the row in the buffer when it was made.
Born(o, at) == [o EXCEPT !.born = at]

\* The reference the caller holds after an operation that made object o
\* (or raised): the new object, or the one held before.
Held(old, out, o, at) == IF out = "ok" THEN Born(o, at) ELSE old

InitCommon ==
  /\ buf = EmptyRow
  /\ lastLoaded = -1
  /\ ev = NoObject
  /\ view = NoObject
  /\ it = [pc |-> "idle", j |-> 0]
  /\ yielded = <<>>
  /\ res = NoRes

\* ntuple.getEvent(index); the caller keeps the Event or lets it go
GetEvent ==
  \E index \in Sentinel..entries, keep \in BOOLEAN :
    LET r == HGCALNtuple_getEvent(index, buf)
        at == IF r.nb > 0 THEN index ELSE lastLoaded
    IN /\ buf' = r.tree
       /\ lastLoaded' = at
       /\ ev' = IF keep /\ r.out = "Event" THEN Born(r.obj, at) ELSE ev
       /\ res' = [NoRes EXCEPT !.op = "getEvent", !.arg = index, !.out = r.out,
                               !.obj = r.obj]
       /\ UNCHANGED <<store, view, it, yielded>>

\* iter(ntuple): a new generator; nothing runs before the first next()
IterStart ==
  /\ it.pc \in {"idle", "done"}
  /\ it' = [pc |-> "running", j |-> 0]
  /\ yielded' = <<>>
  /\ res' = [NoRes EXCEPT !.op = "iter(ntuple)", !.out = "generator"]
  /\ UNCHANGED <<store, buf, lastLoaded, ev, view>>

\* next() on the generator of HGCALNtuple.__iter__
IterNext ==
  \E keep \in BOOLEAN :
    LET r == HGCALNtuple_iter(it.j, buf)
        at == IF r.out = "Event" THEN r.obj.entry ELSE lastLoaded
    IN /\ it.pc = "running"
       /\ buf' = r.tree
       /\ lastLoaded' = at
       /\ it' = [pc |-> IF r.out = "Event" THEN "running" ELSE "done", j |-> r.next]
       /\ yielded' = IF r.out = "Event" THEN Append(yielded, r.obj.entry) ELSE yielded
       /\ ev' = IF keep /\ r.out = "Event" THEN Born(r.obj, at) ELSE ev
       /\ res' = [NoRes EXCEPT !.op = "next", !.out = r.out, !.obj = r.obj]
       /\ UNCHANGED <<store, view>>

\* event.eventId()
EventRead ==
  /\ ev.type = "Event"
  /\ res' = [NoRes EXCEPT !.op = "eventId", !.self = ev, !.out = "ok",
                          !.val = Event_eventId(ev, buf), !.reads = 3]
  /\ UNCHANGED <<store, buf, lastLoaded, ev, view, it, yielded>>

\* event.tracks(), ..., event.electrons()
Factory ==
  \E name \in Factories :
    LET r == Event_factory(name)
    IN /\ ev.type = "Event"
       /\ view' = Held(view, r.out, r.obj, lastLoaded)
       /\ res' = [NoRes EXCEPT !.op = "factory", !.self = ev, !.attr = name,
                               !.out = r.out,
                               !.obj = r.obj]
       /\ UNCHANGED <<store, buf, lastLoaded, ev, it, yielded>>

\* collection.size()
CollSize ==
  /\ view.type = "Coll"
  /\ res' = [NoRes EXCEPT !.op = "size", !.self = view, !.out = "ok",
                          !.num = Collection_size(view, buf), !.reads = 1]
  /\ UNCHANGED <<store, buf, lastLoaded, ev, view, it, yielded>>

\* collection[index]
CollGet ==
  \E index \in (Sentinel - 1)..MaxIndex :
    LET r == Collection_getitem(view, index)
    IN /\ view.type = "Coll"
       /\ view' = Held(view, r.out, r.obj, lastLoaded)
       /\ res' = [NoRes EXCEPT !.op = "get", !.self = view, !.arg = index,
                               !.out = r.out, !.obj = r.obj]
       /\ UNCHANGED <<store, buf, lastLoaded, ev, it, yielded>>

\* list(collection)
CollIter ==
  LET r == Collection_iter(view, buf)
  IN /\ view.type = "Coll"
     /\ res' = [NoRes EXCEPT !.op = "iter", !.self = view, !.out = r.out,
                             !.objs = r.objs, !.reads = 1]
     /\ UNCHANGED <<store, buf, lastLoaded, ev, view, it, yielded>>

\* Branch names the caller asks an object for.
Attrs == {"pt", "eta", "cluster2d", "rechits", "pfClusterIndex", "bogus"}

\* Those whose branch holds one number per object; the others hold one
\* index list per object.
NumberAttrs == {"pt", "eta"}

\* object.attr()
ObjAccess ==
  \E attr \in Attrs :
    LET r == Object_access(view, attr, buf)
    IN /\ view.type = "Obj"
       /\ res' = [NoRes EXCEPT
                    !.op = "access", !.self = view, !.attr = attr, !.out = r.out,
                    !.num = IF r.out = "ok" /\ attr \in NumberAttrs THEN r.val ELSE 0,
                    !.val = IF r.out = "ok" /\ attr \notin NumberAttrs THEN r.val ELSE <<>>,
                    !.reads = r.reads]
       /\ UNCHANGED <<store, buf, lastLoaded, ev, view, it, yielded>>

\* The caller runs a cross-reference generator to its end and goes on with
\* one of the objects it yielded, or with the object it had.
Followed(op, r) ==
  \E k \in 0..Len(r.objs) :
    /\ view' = IF k > 0 THEN Born(r.objs[k], lastLoaded) ELSE view
    /\ res' = [NoRes EXCEPT !.op = op, !.self = view, !.out = r.out,
                            !.objs = r.objs, !.reads = r.reads]
    /\ UNCHANGED <<store, buf, lastLoaded, ev, it, yielded>>

\* list(multicluster.layerClusters())
FollowLayerClusters ==
  /\ view.cls = "MultiCluster"
  /\ Followed("layerClusters", MultiCluster_layerClusters(view, buf))

\* list(electron.clustersFromMultiCl())
FollowClustersFromMultiCl ==
  /\ view.cls = "Electron"
  /\ Followed("clustersFromMultiCl", Electron_clustersFromMultiCl(view, buf))

\* list(pfcluster.hits())
FollowHits ==
  /\ view.cls = "PFClusterFromMultiCl"
  /\ Followed("hits", PFClusterFromMultiCl_hits(view, buf))

\* list(layercluster.rechits())
FollowRechits ==
  /\ view.cls = "LayerCluster"
  /\ Followed("rechits", LayerCluster_rechits(view, buf, 0))

\* ------------------------------------------------------ the specifications

\* Views over a full store, whose first entry may fail to read: the caller
\* loads rows at random and works with the collections and objects of the
\* loaded row.
Init ==
  /\ entries = MaxEntries
  /\ limit = entries
  /\ corrupt \in {{}, {0}}
  /\ InitCommon

Next ==
  \/ GetEvent
  \/ EventRead
  \/ Factory
  \/ CollSize
  \/ CollGet
  \/ CollIter
  \/ ObjAccess
  \/ FollowLayerClusters
  \/ FollowClustersFromMultiCl
  \/ FollowHits
  \/ FollowRechits

Spec == Init /\ [][Next]_vars

\* Row loading over any store: entries that fail to read, and a tree that
\* ends before _entries.
InitStore ==
  /\ entries \in 1..MaxEntries
  /\ limit \in 0..entries
  /\ corrupt \in SUBSET (0..(entries - 1))
  /\ InitCommon

NextStore ==
  \/ GetEvent
  \/ IterStart
  \/ IterNext
  \/ EventRead

SpecStore == InitStore /\ [][NextStore]_vars

\* ------------------------------------------------------------ the claims

\* Position o.index exists in the named branch of the loaded row.
InRange(o, branch) ==
  branch \in DOMAIN buf /\ 0 <= o.index /\ o.index < Len(buf[branch])

\* The index() values of a sequence of objects.
Indices(objs) == [k \in 1..Len(objs) |-> Object_index(objs[k])]

\* The branches of a kind in the loaded row.
KindBranches(prefix) == {prefix \o "_" \o a : a \in Attrs} \cap DOMAIN buf

\* C1: an object is valid iff its index is not -1; a field access on an
\* object of index -1 raises before any branch is read; a field access on a
\* valid object returns the element at position index() of branch
\* <prefix>_<field> of the loaded row.
C1_FieldAccess ==
  /\ view.type = "Obj" => (Object_isValid(view) <=> Object_index(view) # -1)
  /\ res.op = "access" =>
       LET o == res.self
           branch == o.prefix \o "_" \o res.attr
       IN /\ Object_index(o) = -1 => res.out = "Exception" /\ res.reads = 0
          /\ Object_isValid(o) /\ InRange(o, branch) =>
               /\ res.out = "ok"
               /\ IF res.attr \in NumberAttrs
                    THEN res.num = buf[branch][o.index + 1]
                    ELSE res.val = buf[branch][o.index + 1]

\* The stored index list a cross-reference of object o walks.
Stored(o, branch) == buf[branch][o.index + 1]

\* What following the list stored in branch must yield: one object of class
\* cls per stored index, in the stored order, repeats included.
YieldsStored(o, branch, cls) ==
  Object_isValid(o) /\ InRange(o, branch) =>
    /\ res.out = "ok"
    /\ Len(res.objs) = Len(Stored(o, branch))
    /\ \A k \in 1..Len(res.objs) :
         /\ res.objs[k].type = "Obj"
         /\ res.objs[k].cls = cls
         /\ Object_index(res.objs[k]) = Stored(o, branch)[k]

\* C2: MultiCluster.layerClusters and Electron.clustersFromMultiCl yield
\* exactly one object of the target kind per stored index, in the stored
\* order, with repeated indices yielded repeatedly.
C2_CrossReference ==
  /\ res.op = "layerClusters" =>
       YieldsStored(res.self, "multiclus_cluster2d", "LayerCluster")
  /\ res.op = "clustersFromMultiCl" =>
       YieldsStored(res.self, "ecalDrivenGsfele_pfClusterIndex", "PFClusterFromMultiCl")

\* A multicluster whose stored list <<0, 2, 2>> repeats an index was followed.
C2_Witness ==
  /\ res.op = "layerClusters"
  /\ res.out = "ok"
  /\ Indices(res.objs) = <<0, 2, 2>>

C6_NoSnapshot ==
  LET row == RowAt(lastLoaded)
  IN /\ ev.type = "Event" =>
          /\ Event_eventId(ev, buf) = <<row.run, row.lumi, row.event>>
          /\ GetEntry(ev.entry) > 0 => Event_entry(ev) = ev.born
     /\ res.op = "eventId" => res.val = <<row.run, row.lumi, row.event>>
     /\ view.type = "Coll" => Collection_size(view, buf) = Len(row[view.sizeBranch])
     /\ res.op = "size" => res.num = Len(row[res.self.sizeBranch])
     /\ view.type = "Obj" =>
          \A attr \in Attrs :
            Object_access(view, attr, buf) = Object_access(view, attr, row)
     /\ res.op = "access" =>
          /\ res.out = Object_access(res.self, res.attr, row).out
          /\ res.out = "ok" /\ res.attr \in NumberAttrs =>
               res.num = Object_access(res.self, res.attr, row).val
          /\ res.out = "ok" /\ res.attr \notin NumberAttrs =>
               res.val = Object_access(res.self, res.attr, row).val

\* An Event and an object made under one row were read after another row
\* was loaded.
C6_Witness ==
  /\ ev.type = "Event"
  /\ ev.born = ev.entry
  /\ view.type = "Obj"
  /\ view.born = ev.entry
  /\ lastLoaded # ev.entry
  /\ res.op = "access"
  /\ res.out = "ok"

\* C7: getEvent(index) hands out an Event only when the row was loaded, and
\* None both when LoadTree is negative and when GetEntry is <= 0.
C7_GetEvent ==
  res.op = "getEvent" =>
    LET failed == LoadTree(res.arg) < 0 \/ GetEntry(res.arg) <= 0
    IN /\ failed => res.out = "None" /\ res.obj = NoObject
       /\ res.out = "Event" => ~failed /\ buf = RowAt(res.arg)

\* C8: every factory method of Event returns a collection; none fails and
\* none returns an object.
C8_Factories ==
  res.op = "factory" =>
    /\ res.out = "ok"
    /\ res.obj.type = "Coll"
    /\ view = Born(res.obj, lastLoaded)

\* Entry j can be positioned on and read.
Readable(j) == LoadTree(j) >= 0 /\ GetEntry(j) > 0

\* The entries below j that can be read, in increasing order.
ReadableBelow(j) == SelectSeq([k \in 1..j |-> k - 1], Readable)

\* Where the loop of __iter__ ends: the first entry LoadTree refuses, or
\* _entries.
LoopEnd ==
  IF \E j \in 0..(entries - 1) : LoadTree(j) < 0
    THEN CHOOSE j \in 0..(entries - 1) :
           LoadTree(j) < 0 /\ \A i \in 0..(j - 1) : LoadTree(i) >= 0
    ELSE entries

\* C9: iterating the ntuple passes each of the n entries at most once, in
\* increasing order; it yields exactly the entries that read, skipping those
\* that do not; it ends at the first entry LoadTree refuses or after the
\* last entry; and an Event is yielded with its own entry in the buffer.
C9_Iteration ==
  /\ it.pc # "idle" =>
       /\ it.j <= LoopEnd
       /\ LoopEnd <= entries
       /\ yielded = ReadableBelow(it.j)
       /\ \A k \in 1..(Len(yielded) - 1) : yielded[k] < yielded[k + 1]
  /\ it.pc = "done" => it.j = LoopEnd
  /\ res.op = "next" /\ res.out = "Event" =>
       /\ Event_entry(res.obj) = yielded[Len(yielded)]
       /\ it.j = Event_entry(res.obj) + 1
       /\ buf = RowAt(Event_entry(res.obj))
  /\ res.op = "next" /\ res.out = "Stop" => it.pc = "done"

\* An iteration ended at an entry LoadTree refused, after it had skipped an
\* entry that failed to read and yielded a later one.
C9_Witness ==
  /\ it.pc = "done"
  /\ LoopEnd < entries
  /\ yielded # <<>>
  /\ \E c \in corrupt : c < yielded[Len(yielded)]

\* C10: LayerCluster.rechits on a valid layer cluster ends and yields one
\* RecHit per index stored in the cluster's rechits branch, in the stored
\* order.
C10_Rechits ==
  res.op = "rechits" => YieldsStored(res.self, "cluster2d_rechits", "RecHit")

====
